---------------------------- MODULE Spec2Model ----------------------------
(***************************************************************************)
(* A model of src/evo/simplifiedmns.cpp: the simplified masternode list    *)
(* entry, the sorted simplified list, the entry diff, the quorum diff, the *)
(* chainlock correlation and the top-level BuildSimplifiedMNListDiff.      *)
(*                                                                         *)
(* 256-bit hashes, scripts, keys and signatures are small integers; 0 is   *)
(* the null hash / the null signature.  uint256 comparison is integer      *)
(* comparison.                                                             *)
(***************************************************************************)
EXTENDS Integers, Sequences, FiniteSets, TLC

VARIABLES pc,       \* position of the calling thread
          env,      \* what the external collaborators return (inputs)
          diff,     \* the CSimplifiedMNListDiff being built (mnListDiffRet)
          loc,      \* locals of the running function, and history of the call
          ret,      \* [value, errorRet]: the bool returned and the error tag
          cs_main,  \* owner of the chain-state lock: "none", "caller", "writer"
          wpc       \* position of the chain-reorganisation writer

vars == <<pc, env, diff, loc, ret, cs_main, wpc>>

-----------------------------------------------------------------------------
(* Bounds of the model.                                                    *)

MaxMN == 2
MaxQuorumHash == 2
MaxEnumLen == 2
MaxNewQuorums == 3
MaxWorkHeight == 1
MaxSig == 2
MaxBlock == 4

(* Program constants.                                                      *)

CLSigOffset == 8
LEGACY_BLS_VERSION == 1
BASIC_BLS_VERSION == 2
UINT16 == 65536
UINT8 == 256

NullHash == 0
NullSig == 0
NullPtr == -1
NoCL == -1

-----------------------------------------------------------------------------
(* Generic helpers.                                                        *)

Range(s) == {s[i] : i \in DOMAIN s}

NoDup(s) == \A i, j \in DOMAIN s : s[i] = s[j] => i = j

SeqsUpTo(S, n) == UNION {[1..k -> S] : k \in 0..n}

Perms(S) == {s \in [1..Cardinality(S) -> S] : Range(s) = S}

RECURSIVE SelectSeqBy(_, _)
\* the elements of s that are in set S, in the order of s
SelectSeqBy(s, S) ==
    IF s = <<>> THEN <<>>
    ELSE (IF Head(s) \in S THEN <<Head(s)>> ELSE <<>>) \o SelectSeqBy(Tail(s), S)

-----------------------------------------------------------------------------
(* The deterministic masternode registry (external) and the entry.         *)

ProTxHashes == 1..MaxMN

\* a registry record (CDeterministicMN with its pdmnState), flattened
BaseDmn(id) ==
    [proTxHash |-> id, nType |-> 0, confirmedHash |-> 0, addr |-> 0,
     pubKeyOperator |-> 0, keyIDVoting |-> 0, banned |-> FALSE,
     scriptPayout |-> 0, scriptOperatorPayout |-> 0,
     nVersion |-> LEGACY_BLS_VERSION,
     platformHTTPPort |-> 0, platformNodeID |-> 0]

\* the records a target list may hold for id: the base record with one field changed
DmnVariants(id) ==
    LET b == BaseDmn(id) IN
    {b,
     [b EXCEPT !.nType = 1], [b EXCEPT !.confirmedHash = 1], [b EXCEPT !.addr = 1],
     [b EXCEPT !.pubKeyOperator = 1], [b EXCEPT !.keyIDVoting = 1],
     [b EXCEPT !.banned = TRUE], [b EXCEPT !.scriptPayout = 1],
     [b EXCEPT !.scriptOperatorPayout = 1],
     [b EXCEPT !.nVersion = BASIC_BLS_VERSION],
     [b EXCEPT !.nVersion = BASIC_BLS_VERSION + 1],
     [b EXCEPT !.platformHTTPPort = 1], [b EXCEPT !.platformNodeID = 1]}

\* the records a base list may hold for id
BaseDmnVariants(id) ==
    {BaseDmn(id), [BaseDmn(id) EXCEPT !.nVersion = BASIC_BLS_VERSION]}

\* CSimplifiedMNListEntry(const CDeterministicMN&)
CSimplifiedMNListEntry(dmn) ==
    [proRegTxHash |-> dmn.proTxHash,
     confirmedHash |-> dmn.confirmedHash,
     service |-> dmn.addr,
     pubKeyOperator |-> dmn.pubKeyOperator,
     keyIDVoting |-> dmn.keyIDVoting,
     isValid |-> ~dmn.banned,
     scriptPayout |-> dmn.scriptPayout,
     scriptOperatorPayout |-> dmn.scriptOperatorPayout,
     nVersion |-> IF dmn.nVersion = LEGACY_BLS_VERSION
                  THEN LEGACY_BLS_VERSION ELSE BASIC_BLS_VERSION,
     nType |-> dmn.nType,
     platformHTTPPort |-> dmn.platformHTTPPort,
     platformNodeID |-> dmn.platformNodeID]

\* CSimplifiedMNListEntry::operator== (declared in the header): every field
\* but the two payout scripts
EntryEq(a, b) ==
    /\ a.proRegTxHash = b.proRegTxHash
    /\ a.confirmedHash = b.confirmedHash
    /\ a.service = b.service
    /\ a.pubKeyOperator = b.pubKeyOperator
    /\ a.keyIDVoting = b.keyIDVoting
    /\ a.isValid = b.isValid
    /\ a.nVersion = b.nVersion
    /\ a.nType = b.nType
    /\ a.platformHTTPPort = b.platformHTTPPort
    /\ a.platformNodeID = b.platformNodeID

\* a CDeterministicMNCPtr is the set of the records it points to: {} is nullptr
NullMN == {}

Deref(ptr) == CHOOSE dmn \in ptr : TRUE

\* CDeterministicMNList::GetMN: a pointer to the record, or the null pointer
GetMN(list, proTxHash) ==
    IF proTxHash \in DOMAIN list.mns THEN {list.mns[proTxHash]} ELSE NullMN

\* a default-constructed CSimplifiedMNListDiff
EmptyDiff ==
    [baseBlockHash |-> NullHash, blockHash |-> NullHash,
     mnList |-> <<>>, deletedMNs |-> <<>>,
     deletedQuorums |-> <<>>, newQuorums |-> <<>>,
     quorumsCLSigs |-> <<>>,
     cbTx |-> NullHash, cbTxMerkleTree |-> <<>>]


-----------------------------------------------------------------------------
(* BuildSimplifiedDiff.  ForEachMN enumerates an immer map, whose order is *)
(* not fixed by the registry's contents: the order is an input (toOrder,   *)
(* fromOrder), any permutation of the list's ids.                          *)

\* the test of lines 308-309 (mutant: the extended clause forgotten)
EntryChanged_NoExtended(sme1, sme2, extended) == ~EntryEq(sme1, sme2)

\* the test of lines 308-309: sme1 != sme2, or, when extended, a payout script differs
EntryChanged(sme1, sme2, extended) ==
    \/ ~EntryEq(sme1, sme2)
    \/ (extended /\ (sme1.scriptPayout # sme2.scriptPayout
                     \/ sme1.scriptOperatorPayout # sme2.scriptOperatorPayout))

\* (mutant: the base-side entry is pushed for a changed masternode)
ToBody_PushesBase(from, toPtr, extended) ==
    LET fromPtr == GetMN(from, toPtr.proTxHash) IN
    IF fromPtr = NullMN
    THEN <<CSimplifiedMNListEntry(toPtr)>>
    ELSE LET sme1 == CSimplifiedMNListEntry(toPtr)
             sme2 == CSimplifiedMNListEntry(Deref(fromPtr))
         IN IF EntryChanged(sme1, sme2, extended) THEN <<sme2>> ELSE <<>>

\* the body of the first ForEachMN (lines 300-313): what it pushes on mnList
ToBody(from, toPtr, extended) ==
    LET fromPtr == GetMN(from, toPtr.proTxHash) IN
    IF fromPtr = NullMN
    THEN <<CSimplifiedMNListEntry(toPtr)>>
    ELSE LET sme1 == CSimplifiedMNListEntry(toPtr)
             sme2 == CSimplifiedMNListEntry(Deref(fromPtr))
         IN IF EntryChanged(sme1, sme2, extended) THEN <<sme1>> ELSE <<>>

\* the body of the second ForEachMN (lines 315-320): what it pushes on deletedMNs
FromBody(to, fromPtr) ==
    LET toPtr == GetMN(to, fromPtr.proTxHash) IN
    IF toPtr = NullMN THEN <<fromPtr.proTxHash>> ELSE <<>>

RECURSIVE ToLoop(_, _, _, _)
ToLoop(from, to, extended, order) ==
    IF order = <<>> THEN <<>>
    ELSE ToBody(from, to.mns[Head(order)], extended)
         \o ToLoop(from, to, extended, Tail(order))

RECURSIVE FromLoop(_, _, _)
FromLoop(from, to, order) ==
    IF order = <<>> THEN <<>>
    ELSE FromBody(to, from.mns[Head(order)]) \o FromLoop(from, to, Tail(order))

BuildSimplifiedDiff(from, to, extended, toOrder, fromOrder) ==
    [EmptyDiff EXCEPT !.baseBlockHash = from.blockHash,
                      !.blockHash = to.blockHash,
                      !.mnList = ToLoop(from, to, extended, toOrder),
                      !.deletedMNs = FromLoop(from, to, fromOrder)]

-----------------------------------------------------------------------------
(* CSimplifiedMNList: entries sorted ascending by proRegTxHash.            *)

RECURSIVE InsertSorted(_, _)
InsertSorted(e, s) ==
    IF s = <<>> THEN <<e>>
    ELSE IF e.proRegTxHash < Head(s).proRegTxHash THEN <<e>> \o s
    ELSE <<Head(s)>> \o InsertSorted(e, Tail(s))

RECURSIVE SortEntries(_)
\* std::sort by proRegTxHash.Compare(...) < 0 (lines 104-106, 118-120)
SortEntries(s) ==
    IF s = <<>> THEN <<>> ELSE InsertSorted(Head(s), SortEntries(Tail(s)))

\* CSimplifiedMNList(const std::vector<CSimplifiedMNListEntry>&)
SMLFromEntries(smlEntries) == SortEntries(smlEntries)

\* CSimplifiedMNList(const CDeterministicMNList&), enumerated in order `order`
SMLFromDmnList(dmnList, order) ==
    SortEntries([i \in 1..Len(order) |-> CSimplifiedMNListEntry(dmnList.mns[order[i]])])

\* CSimplifiedMNList::operator==
SMLEq(lhs, rhs) ==
    /\ Len(lhs) = Len(rhs)
    /\ \A i \in 1..Len(lhs) : EntryEq(lhs[i], rhs[i])

-----------------------------------------------------------------------------
(* Specification SpecDiff: BuildSimplifiedDiff on two registry lists.      *)

ListsOver(V(_)) ==
    UNION {{[blockHash |-> 0, mns |-> f] :
              f \in {g \in [S -> UNION {V(i) : i \in S}] :
                        \A i \in S : g[i].proTxHash = i}} :
           S \in SUBSET ProTxHashes}

InitDiff ==
    /\ pc = "diff_call"
    /\ \E f \in ListsOver(BaseDmnVariants), t \in ListsOver(DmnVariants),
          x \in BOOLEAN :
          env = [from |-> [f EXCEPT !.blockHash = 1],
                 to |-> [t EXCEPT !.blockHash = 2],
                 extended |-> x]
    /\ diff = EmptyDiff
    /\ loc = <<>>
    /\ ret = [value |-> TRUE, errorRet |-> "none"]
    /\ cs_main = "none"
    /\ wpc = "idle"

DiffCall ==
    /\ pc = "diff_call"
    /\ \E toOrder \in Perms(DOMAIN env.to.mns),
          fromOrder \in Perms(DOMAIN env.from.mns) :
          diff' = BuildSimplifiedDiff(env.from, env.to, env.extended,
                                      toOrder, fromOrder)
    /\ pc' = "diff_done"
    /\ UNCHANGED <<env, loc, ret, cs_main, wpc>>

NextDiff == DiffCall

SpecDiff == InitDiff /\ [][NextDiff]_vars


-----------------------------------------------------------------------------
(* Claims about the entry diff (SpecDiff).                                 *)

PayoutFields == {"scriptPayout", "scriptOperatorPayout"}

SmeFields ==
    {"proRegTxHash", "confirmedHash", "service", "pubKeyOperator", "keyIDVoting",
     "isValid", "nVersion", "nType", "platformHTTPPort", "platformNodeID"}
    \cup PayoutFields

\* the fields the diff compares in a mode
ComparedFields(extended) == IF extended THEN SmeFields ELSE SmeFields \ PayoutFields

Differs(a, b, extended) == \E f \in ComparedFields(extended) : a[f] # b[f]

SmeIds(entries) == {entries[i].proRegTxHash : i \in DOMAIN entries}

\* the ids of the target that are new or whose entry differs from the base's
ExpectedChanged ==
    {id \in DOMAIN env.to.mns :
        \/ id \notin DOMAIN env.from.mns
        \/ Differs(CSimplifiedMNListEntry(env.to.mns[id]),
                   CSimplifiedMNListEntry(env.from.mns[id]), env.extended)}

\* C4: after BuildSimplifiedDiff, mnList holds exactly one entry, the target-side
\* one, for each masternode of the target that is absent from the base or differs
\* from its base entry on a compared field (the payout scripts only when extended),
\* and deletedMNs holds exactly the ids of the base that are absent from the target.
C4_EntryDiffExact ==
    pc = "diff_done" =>
        /\ SmeIds(diff.mnList) = ExpectedChanged
        /\ Len(diff.mnList) = Cardinality(ExpectedChanged)
        /\ \A i \in DOMAIN diff.mnList :
              diff.mnList[i] =
                 CSimplifiedMNListEntry(env.to.mns[diff.mnList[i].proRegTxHash])
        /\ Range(diff.deletedMNs) = DOMAIN env.from.mns \ DOMAIN env.to.mns
        /\ NoDup(diff.deletedMNs)

\* an extended diff in which masternode 1 changed in its payout script only,
\* masternode 2 was added, and both are reported
C4_Witness ==
    /\ pc = "diff_done"
    /\ env.extended
    /\ DOMAIN env.from.mns = {1}
    /\ DOMAIN env.to.mns = {1, 2}
    /\ env.to.mns[1] = [env.from.mns[1] EXCEPT !.scriptPayout = 1]
    /\ SmeIds(diff.mnList) = {1, 2}
    /\ diff.deletedMNs = <<>>

\* what a client holds after applying the diff to the base list: the base entries
\* without the deleted ids, each entry of mnList inserted or replaced by id
AppliedEntries ==
    LET base == {CSimplifiedMNListEntry(env.from.mns[i]) : i \in DOMAIN env.from.mns}
        kept == {e \in base : /\ e.proRegTxHash \notin Range(diff.deletedMNs)
                              /\ e.proRegTxHash \notin SmeIds(diff.mnList)}
    IN kept \cup Range(diff.mnList)

SetToSeq(S) == CHOOSE s \in Perms(S) : TRUE

\* equality of two simplified lists in a mode: operator==, and the payout scripts too
\* when extended
SMLEqMode(lhs, rhs, extended) ==
    /\ SMLEq(lhs, rhs)
    /\ extended => \A i \in 1..Len(lhs) : \A f \in PayoutFields : lhs[i][f] = rhs[i][f]

\* C10: applying the entry diff to the base list reconstructs the target list under
\* the equality of the mode used; deletedMNs and the ids of mnList are disjoint and
\* neither holds an id twice.
C10_ApplyReconstructsTarget ==
    pc = "diff_done" =>
        /\ \A order \in Perms(DOMAIN env.to.mns) :
              SMLEqMode(SMLFromEntries(SetToSeq(AppliedEntries)),
                        SMLFromDmnList(env.to, order), env.extended)
        /\ Range(diff.deletedMNs) \cap SmeIds(diff.mnList) = {}
        /\ NoDup(diff.deletedMNs)
        /\ NoDup([i \in DOMAIN diff.mnList |-> diff.mnList[i].proRegTxHash])

\* a diff that deletes masternode 1 and replaces masternode 2 by its banned entry
C10_Witness ==
    /\ pc = "diff_done"
    /\ DOMAIN env.from.mns = {1, 2}
    /\ DOMAIN env.to.mns = {2}
    /\ env.to.mns[2].banned /\ ~env.from.mns[2].banned
    /\ diff.deletedMNs = <<1>>
    /\ Len(diff.mnList) = 1
    /\ ~diff.mnList[1].isValid


-----------------------------------------------------------------------------
(* BuildQuorumsDiff.  The store's enumeration maps each quorum type to the *)
(* vector of quorum hashes it returned; a ref is a pair <<type, hash>>.    *)

LLMQTypes == {1, 2}
QuorumHashValues == 1..MaxQuorumHash
QuorumRefs == LLMQTypes \X QuorumHashValues

\* operator< of std::pair<Consensus::LLMQType, uint256>
PairLess(a, b) == a[1] < b[1] \/ (a[1] = b[1] /\ a[2] < b[2])

RECURSIVE SetInOrder(_)
\* the iteration of a std::set of pairs: ascending
SetInOrder(S) ==
    IF S = {} THEN <<>>
    ELSE LET m == CHOOSE x \in S : \A y \in S \ {x} : PairLess(x, y)
         IN <<m>> \o SetInOrder(S \ {m})

\* the std::set filled from an enumeration (lines 154-165)
QuorumHashSet(enumeration) ==
    UNION {{<<t, enumeration[t][i]>> : i \in DOMAIN enumeration[t]} :
           t \in DOMAIN enumeration}

RECURSIVE EnumerationOrder(_, _)
\* the refs of an enumeration in the store's order: by type, then as enumerated
EnumerationOrder(enumeration, types) ==
    IF types = {} THEN <<>>
    ELSE LET t == CHOOSE x \in types : \A y \in types : x <= y
         IN [i \in 1..Len(enumeration[t]) |-> <<t, enumeration[t][i]>>]
            \o EnumerationOrder(enumeration, types \ {t})

RECURSIVE FirstOccurrences(_)
FirstOccurrences(s) ==
    IF s = <<>> THEN <<>>
    ELSE LET front == FirstOccurrences(SubSeq(s, 1, Len(s) - 1))
         IN IF s[Len(s)] \in Range(front) THEN front ELSE Append(front, s[Len(s)])

\* (mutant: the loop of line 172 walks the store's vectors instead of the std::set)
TargetIteration_AsEnumerated(quorums) ==
    FirstOccurrences(EnumerationOrder(quorums, DOMAIN quorums))

\* the order in which the loop of line 172 visits the target's refs
TargetIteration(quorums) == SetInOrder(QuorumHashSet(quorums))

\* (mutant: the test of line 174 forgotten)
IsNewQuorum_Always(p, baseQuorumHashes) == TRUE

\* the test of line 174
IsNewQuorum(p, baseQuorumHashes) == p \notin baseQuorumHashes

\* CQuorumBlockProcessor::GetMinedCommitment: a pointer to the commitment of the
\* ref, or nullptr ({}) when the store has none
GetMinedCommitment(llmqType, hash, mined) ==
    IF <<llmqType, hash>> \in mined
    THEN {[llmqType |-> llmqType, quorumHash |-> hash]}
    ELSE {}

\* the loop of lines 167-171
DeletedQuorumsLoop(baseQuorumHashes, quorumHashes) ==
    LET s == SetInOrder(baseQuorumHashes)
        kept == SelectSeqBy(s, baseQuorumHashes \ quorumHashes)
    IN [i \in 1..Len(kept) |-> <<kept[i][1] % UINT8, kept[i][2]>>]

RECURSIVE NewQuorumsLoop(_, _, _, _)
\* the loop of lines 172-182 over the refs left to visit: [ok, newQuorums]
NewQuorumsLoop(todo, baseQuorumHashes, mined, newQuorums) ==
    IF todo = <<>> THEN [ok |-> TRUE, newQuorums |-> newQuorums]
    ELSE LET p == Head(todo) IN
         IF IsNewQuorum(p, baseQuorumHashes)
         THEN LET qc == GetMinedCommitment(p[1], p[2], mined) IN
              IF qc = {}
              THEN [ok |-> FALSE, newQuorums |-> newQuorums]
              ELSE NewQuorumsLoop(Tail(todo), baseQuorumHashes, mined,
                                  Append(newQuorums, CHOOSE c \in qc : TRUE))
         ELSE NewQuorumsLoop(Tail(todo), baseQuorumHashes, mined, newQuorums)

\* CSimplifiedMNListDiff::BuildQuorumsDiff on the diff d: [ok, diff]
BuildQuorumsDiff(d, baseQuorums, quorums, mined) ==
    LET baseQuorumHashes == QuorumHashSet(baseQuorums)
        quorumHashes == QuorumHashSet(quorums)
        deleted == d.deletedQuorums \o DeletedQuorumsLoop(baseQuorumHashes, quorumHashes)
        new == NewQuorumsLoop(TargetIteration(quorums), baseQuorumHashes, mined,
                              d.newQuorums)
    IN [ok |-> new.ok,
        diff |-> [d EXCEPT !.deletedQuorums = deleted, !.newQuorums = new.newQuorums]]

-----------------------------------------------------------------------------
(* Specification SpecQuorums: BuildQuorumsDiff on two enumerations.        *)

\* the enumerations of the base side: each ref once, ascending
AscendingEnumerations ==
    [LLMQTypes -> {s \in SeqsUpTo(QuorumHashValues, MaxEnumLen) :
                      \A i, j \in DOMAIN s : i < j => s[i] < s[j]}]

\* the enumerations of the target side: any order, with repetitions
Enumerations == [LLMQTypes -> SeqsUpTo(QuorumHashValues, MaxEnumLen)]

\* the store resolves every ref, or every ref but one
MinedSets == {QuorumRefs} \cup {QuorumRefs \ {r} : r \in QuorumRefs}

InitQuorums ==
    /\ pc = "quorums_call"
    /\ \E b \in AscendingEnumerations, q \in Enumerations, m \in MinedSets :
          env = [baseQuorums |-> b, quorums |-> q, mined |-> m]
    /\ diff = EmptyDiff
    /\ loc = <<>>
    /\ ret = [value |-> TRUE, errorRet |-> "none"]
    /\ cs_main = "none"
    /\ wpc = "idle"

QuorumsCall ==
    /\ pc = "quorums_call"
    /\ LET r == BuildQuorumsDiff(diff, env.baseQuorums, env.quorums, env.mined) IN
          /\ diff' = r.diff
          /\ ret' = [ret EXCEPT !.value = r.ok]
    /\ pc' = "quorums_done"
    /\ UNCHANGED <<env, loc, cs_main, wpc>>

NextQuorums == QuorumsCall

SpecQuorums == InitQuorums /\ [][NextQuorums]_vars

-----------------------------------------------------------------------------
(* Claims about the quorum diff (SpecQuorums).                             *)

\* the refs an enumeration reports, read off the enumeration itself
RefsOf(enumeration) ==
    {r \in QuorumRefs : \E i \in DOMAIN enumeration[r[1]] : enumeration[r[1]][i] = r[2]}

QcRefs(newQuorums) ==
    [i \in DOMAIN newQuorums |-> <<newQuorums[i].llmqType, newQuorums[i].quorumHash>>]

\* C8 as stated: newQuorums follows the store's enumeration of the target side, by
\* type and within a type in the order enumerated.
C8_FollowsEnumerationOrder ==
    (pc = "quorums_done" /\ ret.value) =>
        QcRefs(diff.newQuorums) =
           SelectSeqBy(FirstOccurrences(EnumerationOrder(env.quorums, LLMQTypes)),
                       RefsOf(env.quorums) \ RefsOf(env.baseQuorums))

\* C8 as amended: newQuorums is ascending by (type, hash), whatever the order in
\* which the store enumerated the quorums of a type.
C8_AscendingByTypeAndHash ==
    (pc = "quorums_done" /\ ret.value) =>
        \A i, j \in DOMAIN diff.newQuorums :
            i < j => PairLess(QcRefs(diff.newQuorums)[i], QcRefs(diff.newQuorums)[j])

\* the store enumerated hash 2 before hash 1 for type 1; newQuorums holds 1 before 2
C8_Witness ==
    /\ pc = "quorums_done" /\ ret.value
    /\ env.quorums[1] = <<2, 1>>
    /\ env.baseQuorums[1] = <<>>
    /\ Len(diff.newQuorums) >= 2
    /\ QcRefs(diff.newQuorums)[1] = <<1, 1>>
    /\ QcRefs(diff.newQuorums)[2] = <<1, 2>>

\* C9: when BuildQuorumsDiff succeeds, deletedQuorums is exactly the refs active at
\* base and not at target, newQuorums holds exactly one commitment for each ref
\* active at target and not at base, and no ref is in both.
C9_TwoSidedSetDifference ==
    (pc = "quorums_done" /\ ret.value) =>
        /\ Range(diff.deletedQuorums) = RefsOf(env.baseQuorums) \ RefsOf(env.quorums)
        /\ NoDup(diff.deletedQuorums)
        /\ Range(QcRefs(diff.newQuorums)) = RefsOf(env.quorums) \ RefsOf(env.baseQuorums)
        /\ NoDup(QcRefs(diff.newQuorums))
        /\ Range(diff.deletedQuorums) \cap Range(QcRefs(diff.newQuorums)) = {}

\* the store enumerated a new ref twice and a ref active on both sides; the new
\* ref is reported once, the common one not at all, and one ref is deleted
C9_Witness ==
    /\ pc = "quorums_done" /\ ret.value
    /\ env.quorums[1] = <<2, 2>>
    /\ env.baseQuorums[1] = <<1>>
    /\ env.quorums[2] = <<1>>
    /\ env.baseQuorums[2] = <<1>>
    /\ QcRefs(diff.newQuorums) = <<<<1, 2>>>>
    /\ diff.deletedQuorums = <<<<1, 1>>>>


-----------------------------------------------------------------------------
(* BuildQuorumChainlockInfo.  A CBlockIndex* of the target's chain is the  *)
(* block's height, NullPtr is nullptr.  A signature is 1..MaxSig, NullSig  *)
(* is the default-constructed CBLSSignature.                               *)

Sigs == 1..MaxSig
QuorumIndexes == {0, 1}
QuorumBaseHeights == (CLSigOffset - 1)..(CLSigOffset + MaxWorkHeight)
TargetHeight == CLSigOffset + MaxWorkHeight + 1

\* CBlockIndex::GetAncestor
GetAncestor(nHeight, height) ==
    IF height > nHeight \/ height < 0 THEN NullPtr ELSE height

\* GetNonNullCoinbaseChainlock: the signature of the block's coinbase, or
\* std::nullopt (NoCL) for a null pointer or a coinbase without one
GetNonNullCoinbaseChainlock(pindex, cbcl) ==
    IF pindex = NullPtr THEN NoCL ELSE cbcl[pindex]

\* lines 197-198: the block expected to carry the chainlock signature of a quorum
WorkBaseBlockIndex(nHeight, quorum) ==
    GetAncestor(nHeight, quorum.baseHeight - quorum.quorumIndex - CLSigOffset)

\* the loop of lines 193-201: the multimap, as its set of <<key, index>> pairs
WorkBaseBlockIndexMap(nHeight, newQuorums, quorumOf) ==
    {<<WorkBaseBlockIndex(nHeight, quorumOf[newQuorums[i].quorumHash]),
       (i - 1) % UINT16>> : i \in DOMAIN newQuorums}

\* (mutant: every index of the multimap is taken, not the key's range)
EqualRange_Whole(map, key) == {p[2] : p \in map}

\* lines 212-214: the indexes stored under one key
EqualRange(map, key) == {p[2] : p \in {q \in map : q[1] = key}}

\* lines 207-210
SigOf(cbcl) == IF cbcl # NoCL THEN cbcl ELSE NullSig

\* (mutant: insert without the merge of line 221)
InsertOrMerge_InsertOnly(quorumsCLSigs, sig, idx_set) ==
    IF sig \in DOMAIN quorumsCLSigs
    THEN quorumsCLSigs
    ELSE [x \in DOMAIN quorumsCLSigs \cup {sig} |->
             IF x = sig THEN idx_set ELSE quorumsCLSigs[x]]

\* lines 220-222: std::map::insert, and the merge when the key exists
InsertOrMerge(quorumsCLSigs, sig, idx_set) ==
    IF sig \in DOMAIN quorumsCLSigs
    THEN [quorumsCLSigs EXCEPT ![sig] = @ \cup idx_set]
    ELSE [x \in DOMAIN quorumsCLSigs \cup {sig} |->
             IF x = sig THEN idx_set ELSE quorumsCLSigs[x]]

RECURSIVE CLSigsLoop(_, _, _, _)
\* the loop of lines 203-223 over the keys left, in the multimap's key order
CLSigsLoop(keys, map, cbcl, quorumsCLSigs) ==
    IF keys = <<>> THEN quorumsCLSigs
    ELSE LET pWorkBaseBlockIndex == Head(keys)
             sig == SigOf(GetNonNullCoinbaseChainlock(pWorkBaseBlockIndex, cbcl))
             idx_set == EqualRange(map, pWorkBaseBlockIndex)
         IN CLSigsLoop(Tail(keys), map, cbcl,
                       InsertOrMerge(quorumsCLSigs, sig, idx_set))

\* CSimplifiedMNListDiff::BuildQuorumChainlockInfo on the diff d; keyOrder is the
\* order of the multimap's keys, which are addresses
BuildQuorumChainlockInfo(d, nHeight, quorumOf, cbcl, keyOrder) ==
    LET map == WorkBaseBlockIndexMap(nHeight, d.newQuorums, quorumOf)
    IN [d EXCEPT !.quorumsCLSigs = CLSigsLoop(keyOrder, map, cbcl, d.quorumsCLSigs)]

\* the keys of the multimap
WorkKeys(nHeight, newQuorums, quorumOf) ==
    {p[1] : p \in WorkBaseBlockIndexMap(nHeight, newQuorums, quorumOf)}

-----------------------------------------------------------------------------
(* Specification SpecCL: BuildQuorumChainlockInfo on a list of new quorums.*)

Quorums == [baseHeight : QuorumBaseHeights, quorumIndex : QuorumIndexes]

InitCL ==
    /\ pc = "cl_call"
    /\ \E n \in 0..MaxNewQuorums :
       \E q \in [1..n -> Quorums], c \in [0..MaxWorkHeight -> Sigs \cup {NoCL}] :
          /\ env = [nHeight |-> TargetHeight, quorumOf |-> q, cbcl |-> c]
          /\ diff = [EmptyDiff EXCEPT
                       !.newQuorums = [i \in 1..n |-> [llmqType |-> 1, quorumHash |-> i]]]
    /\ loc = <<>>
    /\ ret = [value |-> TRUE, errorRet |-> "none"]
    /\ cs_main = "none"
    /\ wpc = "idle"

CLCall ==
    /\ pc = "cl_call"
    /\ \E keyOrder \in Perms(WorkKeys(env.nHeight, diff.newQuorums, env.quorumOf)) :
          diff' = BuildQuorumChainlockInfo(diff, env.nHeight, env.quorumOf, env.cbcl,
                                           keyOrder)
    /\ pc' = "cl_done"
    /\ UNCHANGED <<env, loc, ret, cs_main, wpc>>

NextCL == CLCall

SpecCL == InitCL /\ [][NextCL]_vars

-----------------------------------------------------------------------------
(* Claims about the chainlock correlation (SpecCL).                        *)

\* the groups of quorumsCLSigs that hold index i
GroupsOf(i) == {s \in DOMAIN diff.quorumsCLSigs : i \in diff.quorumsCLSigs[s]}

\* C2: after BuildQuorumChainlockInfo the groups of quorumsCLSigs partition the
\* indexes of newQuorums: each index 0..len-1 is in exactly one group and no group
\* holds any other number.
C2_GroupsPartitionIndexes ==
    pc = "cl_done" =>
        /\ \A i \in 0..(Len(diff.newQuorums) - 1) : Cardinality(GroupsOf(i)) = 1
        /\ \A s \in DOMAIN diff.quorumsCLSigs :
              diff.quorumsCLSigs[s] \subseteq 0..(Len(diff.newQuorums) - 1)

\* three quorums over two blocks with different signatures: two groups
C2_Witness ==
    /\ pc = "cl_done"
    /\ Len(diff.newQuorums) = 3
    /\ Cardinality(DOMAIN diff.quorumsCLSigs) = 2
    /\ \E s \in DOMAIN diff.quorumsCLSigs : Cardinality(diff.quorumsCLSigs[s]) = 2

\* the block expected to sign quorum i (1-based position in newQuorums)
BlockOf(i) == WorkBaseBlockIndex(env.nHeight, env.quorumOf[diff.newQuorums[i].quorumHash])

\* the signature value a block carries: the null signature when it carries none
ValueOf(block) ==
    IF block = NullPtr \/ env.cbcl[block] = NoCL THEN NullSig ELSE env.cbcl[block]

\* C3: two indexes whose expected-signature blocks are distinct but carry the same
\* signature value (the null signature when both carry none) are in the one group
\* keyed by that value, whatever the order in which the blocks are processed.
C3_SameSignatureSameGroup ==
    pc = "cl_done" =>
        \A i, j \in DOMAIN diff.newQuorums :
            (BlockOf(i) # BlockOf(j) /\ ValueOf(BlockOf(i)) = ValueOf(BlockOf(j))) =>
                /\ ValueOf(BlockOf(i)) \in DOMAIN diff.quorumsCLSigs
                /\ {i - 1, j - 1} \subseteq diff.quorumsCLSigs[ValueOf(BlockOf(i))]
                /\ GroupsOf(i - 1) = {ValueOf(BlockOf(i))}
                /\ GroupsOf(j - 1) = {ValueOf(BlockOf(i))}

\* two quorums whose blocks are at heights 0 and 1, neither carrying a signature:
\* one group, keyed by the null signature
C3_Witness ==
    /\ pc = "cl_done"
    /\ Len(diff.newQuorums) = 2
    /\ BlockOf(1) = 0 /\ BlockOf(2) = 1
    /\ env.cbcl[0] = NoCL /\ env.cbcl[1] = NoCL
    /\ DOMAIN diff.quorumsCLSigs = {NullSig}
    /\ diff.quorumsCLSigs[NullSig] = {0, 1}


-----------------------------------------------------------------------------
(* The block index and the active chain (external).  A block is its hash,  *)
(* 1..MaxBlock; MaxBlock + 1 is a hash the index does not know.  Block 1   *)
(* is the genesis block; blocks 2 and 3 compete at height 1, and so on.    *)
(* A CBlockIndex* is the block's hash, NullPtr is nullptr.  The active     *)
(* chain is the sequence of its blocks, the genesis block first.           *)

BlockHashes == 1..MaxBlock

\* CBlockIndex::nHeight
HeightOf(pindex) == pindex \div 2

Chains ==
    {c \in SeqsUpTo(BlockHashes, HeightOf(MaxBlock) + 1) :
        /\ Len(c) >= 1
        /\ \A i \in DOMAIN c : HeightOf(c[i]) = i - 1}

\* BlockManager::LookupBlockIndex
LookupBlockIndex(hash) == IF hash \in BlockHashes THEN hash ELSE NullPtr

\* CChain::Genesis
Genesis(chain) == chain[1]

\* CChain::Contains
Contains(chain, pindex) ==
    /\ HeightOf(pindex) < Len(chain)
    /\ chain[HeightOf(pindex) + 1] = pindex

\* the four checks of lines 331-353 (mutant: the height test made before the
\* active-chain test)
Resolve_RangeFirst(baseBlockHash, blockHash, chain) ==
    LET baseBlockIndex == IF baseBlockHash # NullHash
                          THEN LookupBlockIndex(baseBlockHash) ELSE Genesis(chain)
        blockIndex == LookupBlockIndex(blockHash)
        r == [ok |-> FALSE, errorRet |-> <<"none">>,
              baseBlockIndex |-> baseBlockIndex, blockIndex |-> blockIndex]
    IN IF baseBlockIndex = NullPtr
       THEN [r EXCEPT !.errorRet = <<"block not found", baseBlockHash>>]
       ELSE IF blockIndex = NullPtr
       THEN [r EXCEPT !.errorRet = <<"block not found", blockHash>>]
       ELSE IF HeightOf(baseBlockIndex) > HeightOf(blockIndex)
       THEN [r EXCEPT !.errorRet = <<"base block is higher then block">>]
       ELSE IF ~Contains(chain, baseBlockIndex) \/ ~Contains(chain, blockIndex)
       THEN [r EXCEPT !.errorRet = <<"blocks are not in the same chain">>]
       ELSE [r EXCEPT !.ok = TRUE]

\* lines 331-353: both block indexes, or the first failure
Resolve(baseBlockHash, blockHash, chain) ==
    LET baseBlockIndex == IF baseBlockHash # NullHash
                          THEN LookupBlockIndex(baseBlockHash) ELSE Genesis(chain)
        blockIndex == LookupBlockIndex(blockHash)
        r == [ok |-> FALSE, errorRet |-> <<"none">>,
              baseBlockIndex |-> baseBlockIndex, blockIndex |-> blockIndex]
    IN IF baseBlockIndex = NullPtr
       THEN [r EXCEPT !.errorRet = <<"block not found", baseBlockHash>>]
       ELSE IF blockIndex = NullPtr
       THEN [r EXCEPT !.errorRet = <<"block not found", blockHash>>]
       ELSE IF ~Contains(chain, baseBlockIndex) \/ ~Contains(chain, blockIndex)
       THEN [r EXCEPT !.errorRet = <<"blocks are not in the same chain">>]
       ELSE IF HeightOf(baseBlockIndex) > HeightOf(blockIndex)
       THEN [r EXCEPT !.errorRet = <<"base block is higher then block">>]
       ELSE [r EXCEPT !.ok = TRUE]

\* (mutant: the assertion compiled out)
AssertLockHeld_Skipped(owner) == TRUE

\* AssertLockHeld(cs_main), line 328, in the calling thread
AssertLockHeld(owner) == owner = "caller"

\* (mutant: line 362 forgotten)
SetBaseBlockHash_Skipped(d, baseBlockHash) == d

\* line 362
SetBaseBlockHash(d, baseBlockHash) == [d EXCEPT !.baseBlockHash = baseBlockHash]

\* CPartialMerkleTree(vHashes, vMatch), lines 385-391
CbTxMerkleTree(vtx) ==
    [vHashes |-> vtx, vMatch |-> [i \in DOMAIN vtx |-> i = 1]]

-----------------------------------------------------------------------------
(* What the external collaborators return to one build (small sets).       *)

\* deterministicMNManager->GetListForBlock
BuildDmnLists(pindex) ==
    {[blockHash |-> pindex, mns |-> m] :
        m \in {<<>>, <<BaseDmn(1)>>, <<[BaseDmn(1) EXCEPT !.banned = TRUE]>>}}

\* GetMinedAndActiveCommitmentsUntilBlock
BuildEnumerations ==
    {[t \in LLMQTypes |-> <<>>], [t \in LLMQTypes |-> IF t = 1 THEN <<1>> ELSE <<>>]}

\* GetMinedCommitment
BuildMinedSets == {QuorumRefs, QuorumRefs \ {<<1, 1>>}}

\* a diff object left over from an earlier call
StaleDiff == [EmptyDiff EXCEPT !.deletedMNs = <<1>>, !.blockHash = 1]

-----------------------------------------------------------------------------
(* Specification SpecBuild: one call of BuildSimplifiedMNListDiff by a     *)
(* caller thread, beside a writer thread that reorganises the chain under  *)
(* cs_main.                                                                *)

BuildPcs == {"resolve", "lists", "quorums", "chainlock", "readblock"}

InitBuild ==
    /\ pc = "idle"
    /\ \E c \in Chains, b \in 0..(MaxBlock + 1), t \in 0..(MaxBlock + 1),
          x \in BOOLEAN :
          env = [chain |-> c, baseBlockHash |-> b, blockHash |-> t, extended |-> x]
    /\ diff \in {EmptyDiff, StaleDiff}
    /\ loc = [entered |-> FALSE, lockAtEntry |-> "none", chainAtEntry |-> <<>>,
              resolved |-> FALSE, baseBlockIndex |-> NullPtr, blockIndex |-> NullPtr,
              reads |-> {}]
    /\ ret = [value |-> TRUE, errorRet |-> <<"none">>]
    /\ cs_main = "none"
    /\ wpc = "idle"

\* the caller takes cs_main (LOCK(cs_main) in the RPC and network handlers)
Caller_Lock ==
    /\ pc = "idle"
    /\ cs_main = "none"
    /\ cs_main' = "caller"
    /\ pc' = "locked"
    /\ UNCHANGED <<env, diff, loc, ret, wpc>>

\* lines 328-329: the entry assertion and the reset of the out-parameter
Build_Entry ==
    /\ pc \in {"idle", "locked"}
    /\ loc' = [loc EXCEPT !.entered = TRUE, !.lockAtEntry = cs_main,
                          !.chainAtEntry = env.chain]
    /\ IF AssertLockHeld(cs_main)
       THEN /\ diff' = EmptyDiff
            /\ pc' = "resolve"
       ELSE /\ diff' = diff
            /\ pc' = "assert_failed"
    /\ UNCHANGED <<env, ret, cs_main, wpc>>

\* lines 331-353
Build_Resolve ==
    /\ pc = "resolve"
    /\ LET r == Resolve(env.baseBlockHash, env.blockHash, env.chain) IN
          /\ loc' = [loc EXCEPT !.resolved = TRUE,
                                !.baseBlockIndex = r.baseBlockIndex,
                                !.blockIndex = r.blockIndex,
                                !.reads = @ \cup {<<"chain", env.chain>>}]
          /\ IF r.ok
             THEN /\ pc' = "lists"
                  /\ ret' = ret
             ELSE /\ pc' = "returned"
                  /\ ret' = [value |-> FALSE, errorRet |-> r.errorRet]
    /\ UNCHANGED <<env, diff, cs_main, wpc>>

\* lines 355-362
Build_EntryDiff ==
    /\ pc = "lists"
    /\ \E baseDmnList \in BuildDmnLists(loc.baseBlockIndex),
          dmnList \in BuildDmnLists(loc.blockIndex) :
          /\ loc.baseBlockIndex = loc.blockIndex => baseDmnList = dmnList
          /\ \E toOrder \in Perms(DOMAIN dmnList.mns),
                fromOrder \in Perms(DOMAIN baseDmnList.mns) :
                diff' = SetBaseBlockHash(
                           BuildSimplifiedDiff(baseDmnList, dmnList, env.extended,
                                               toOrder, fromOrder),
                           env.baseBlockHash)
    /\ loc' = [loc EXCEPT !.reads = @ \cup {<<"registry", env.chain>>}]
    /\ pc' = "quorums"
    /\ UNCHANGED <<env, ret, cs_main, wpc>>

\* lines 364-367
Build_QuorumsDiff ==
    /\ pc = "quorums"
    /\ \E baseQuorums \in BuildEnumerations, quorums \in BuildEnumerations,
          mined \in BuildMinedSets :
          /\ loc.baseBlockIndex = loc.blockIndex => baseQuorums = quorums
          /\ LET r == BuildQuorumsDiff(diff, baseQuorums, quorums, mined) IN
                /\ diff' = r.diff
                /\ IF r.ok
                   THEN /\ pc' = "chainlock"
                        /\ ret' = ret
                   ELSE /\ pc' = "returned"
                        /\ ret' = [value |-> FALSE,
                                   errorRet |-> <<"failed to build quorums diff">>]
    /\ loc' = [loc EXCEPT !.reads = @ \cup {<<"quorums", env.chain>>}]
    /\ UNCHANGED <<env, cs_main, wpc>>

\* lines 369-374; BuildQuorumChainlockInfo returns true on every path.  The new
\* quorums' base blocks are at most as high as the target, at most CLSigOffset
\* here: every expected-signature block is the null pointer.
Build_ChainlockInfo ==
    /\ pc = "chainlock"
    /\ \E v20 \in BOOLEAN :
          IF v20
          THEN LET nHeight == HeightOf(loc.blockIndex)
                   quorumOf == [h \in QuorumHashValues |->
                                   [baseHeight |-> nHeight, quorumIndex |-> 0]]
                   cbcl == [h \in 0..nHeight |-> NoCL]
               IN \E keyOrder \in Perms(WorkKeys(nHeight, diff.newQuorums, quorumOf)) :
                     diff' = BuildQuorumChainlockInfo(diff, nHeight, quorumOf, cbcl,
                                                      keyOrder)
          ELSE diff' = diff
    /\ loc' = [loc EXCEPT !.reads = @ \cup {<<"quorums", env.chain>>}]
    /\ pc' = "readblock"
    /\ UNCHANGED <<env, ret, cs_main, wpc>>

\* lines 376-393
Build_ReadBlock ==
    /\ pc = "readblock"
    /\ \E ok \in BOOLEAN, vtx \in {<<10>>, <<10, 11>>} :
          IF ok
          THEN /\ diff' = [diff EXCEPT !.cbTx = vtx[1],
                                       !.cbTxMerkleTree = CbTxMerkleTree(vtx)]
               /\ ret' = [value |-> TRUE, errorRet |-> ret.errorRet]
          ELSE /\ diff' = diff
               /\ ret' = [value |-> FALSE,
                          errorRet |-> <<"failed to read block from disk">>]
    /\ loc' = [loc EXCEPT !.reads = @ \cup {<<"blocks", env.chain>>}]
    /\ pc' = "returned"
    /\ UNCHANGED <<env, cs_main, wpc>>

\* the caller releases cs_main after the call
Caller_Unlock ==
    /\ pc = "returned"
    /\ cs_main' = (IF cs_main = "caller" THEN "none" ELSE cs_main)
    /\ pc' = "done"
    /\ UNCHANGED <<env, diff, loc, ret, wpc>>

\* the writer (block connection, reorganisation) takes cs_main
Writer_Lock ==
    /\ wpc = "idle"
    /\ cs_main = "none"
    /\ cs_main' = "writer"
    /\ wpc' = "locked"
    /\ UNCHANGED <<pc, env, diff, loc, ret>>

\* the writer activates another chain
Writer_Reorg ==
    /\ wpc = "locked"
    /\ \E c \in Chains \ {env.chain} : env' = [env EXCEPT !.chain = c]
    /\ wpc' = "reorganised"
    /\ UNCHANGED <<pc, diff, loc, ret, cs_main>>

Writer_Unlock ==
    /\ wpc \in {"locked", "reorganised"}
    /\ cs_main' = "none"
    /\ wpc' = "idle"
    /\ UNCHANGED <<pc, env, diff, loc, ret>>

NextBuild ==
    \/ Caller_Lock
    \/ Build_Entry
    \/ Build_Resolve
    \/ Build_EntryDiff
    \/ Build_QuorumsDiff
    \/ Build_ChainlockInfo
    \/ Build_ReadBlock
    \/ Caller_Unlock
    \/ Writer_Lock
    \/ Writer_Reorg
    \/ Writer_Unlock

SpecBuild == InitBuild /\ [][NextBuild]_vars


-----------------------------------------------------------------------------
(* Claims about BuildSimplifiedMNListDiff (SpecBuild).                     *)

Returned == pc \in {"returned", "done"}

\* C1: whenever the build returns failure, the diff handed back holds no partial
\* result: mnList, deletedMNs, deletedQuorums, newQuorums and quorumsCLSigs are
\* empty as in a freshly constructed diff.
C1_NoPartialDiffOnFailure ==
    (Returned /\ ~ret.value) =>
        /\ diff.mnList = <<>>
        /\ diff.deletedMNs = <<>>
        /\ diff.deletedQuorums = <<>>
        /\ diff.newQuorums = <<>>
        /\ DOMAIN diff.quorumsCLSigs = {}

\* C5: every successful build returns a diff whose baseBlockHash is the value the
\* caller supplied; for the null hash the base is resolved to the genesis block
\* and the field is still the null hash.
C5_BaseBlockHashAsSupplied ==
    (Returned /\ ret.value) =>
        /\ diff.baseBlockHash = env.baseBlockHash
        /\ env.baseBlockHash = NullHash =>
              /\ loc.baseBlockIndex = Genesis(loc.chainAtEntry)
              /\ diff.baseBlockHash # Genesis(loc.chainAtEntry)

\* a successful build from the null hash to block 2, whose diff names the null hash
C5_Witness ==
    /\ Returned /\ ret.value
    /\ env.baseBlockHash = NullHash
    /\ env.blockHash = 2
    /\ loc.baseBlockIndex = 1
    /\ diff.baseBlockHash = NullHash
    /\ diff.blockHash = 2

\* the reads of the registry, the quorum store and the block storage made so far
ExternalReads == {r \in loc.reads : r[1] \in {"registry", "quorums", "blocks"}}

OnChain(chain, hash) == \E i \in DOMAIN chain : chain[i] = hash

\* the failure the four checks are to report for a request, or <<"none">>
ExpectedFailure(baseBlockHash, blockHash, chain) ==
    LET base == IF baseBlockHash = NullHash THEN chain[1] ELSE baseBlockHash IN
    IF baseBlockHash # NullHash /\ baseBlockHash \notin BlockHashes
    THEN <<"block not found", baseBlockHash>>
    ELSE IF blockHash \notin BlockHashes
    THEN <<"block not found", blockHash>>
    ELSE IF ~OnChain(chain, base) \/ ~OnChain(chain, blockHash)
    THEN <<"blocks are not in the same chain">>
    ELSE IF HeightOf(base) > HeightOf(blockHash)
    THEN <<"base block is higher then block">>
    ELSE <<"none">>

\* C6: the build reports the first failing check only, in the order base not
\* found, target not found, not on the active chain, base higher than target; and
\* the registry, the quorum store and the block storage are read only once all
\* four checks passed.
C6_ValidationOrder ==
    LET expected == ExpectedFailure(env.baseBlockHash, env.blockHash, loc.chainAtEntry)
    IN /\ loc.resolved =>
             IF expected # <<"none">>
             THEN /\ Returned
                  /\ ~ret.value
                  /\ ret.errorRet = expected
                  /\ ExternalReads = {}
             ELSE ret.errorRet \notin
                     {<<"block not found", env.baseBlockHash>>,
                      <<"block not found", env.blockHash>>,
                      <<"blocks are not in the same chain">>,
                      <<"base block is higher then block">>}
       /\ ExternalReads # {} => (loc.resolved /\ expected = <<"none">>)

\* base block 4 (height 2) and target block 2 (height 1), both on the active
\* chain: the build fails with the range error and has read nothing else
C6_Witness ==
    /\ Returned
    /\ env.baseBlockHash = 4 /\ env.blockHash = 2
    /\ loc.chainAtEntry = <<1, 2, 4>>
    /\ ~ret.value
    /\ ret.errorRet = <<"base block is higher then block">>
    /\ ExternalReads = {}

\* C7: a build runs under one holding of cs_main: while it runs the caller owns
\* the lock, the writer is outside its critical section and the active chain is
\* the one found at entry, so every read of the build saw that chain; a build
\* entered without the lock fails the entry assertion, and only such a build does.
C7_BuildUnderOneLock ==
    /\ pc \in BuildPcs \cup {"returned"} =>
          /\ cs_main = "caller"
          /\ wpc = "idle"
          /\ env.chain = loc.chainAtEntry
    /\ \A r \in loc.reads : r[2] = loc.chainAtEntry
    /\ loc.entered => (loc.lockAtEntry # "caller" <=> pc = "assert_failed")

\* a finished successful build that read the chain, the registry, the quorum store
\* and the block storage, after which the writer activated another chain
C7_Witness ==
    /\ pc = "done"
    /\ ret.value
    /\ {r[1] : r \in loc.reads} = {"chain", "registry", "quorums", "blocks"}
    /\ env.chain # loc.chainAtEntry
    /\ wpc = "reorganised"

=============================================================================
